---- MODULE Spec2Model ----
(***************************************************************************)
(* Model of the places gateway (src/api/places.ts): the module-level TTL   *)
(* cache (put / get), the request dispatcher (handler) with its allow-list *)
(* and credential gates, the details lookup with the one-shot field-mask   *)
(* fallback, and the batchDetails fan-out over Promise.all.                *)
(*                                                                         *)
(* JavaScript strings are TLA+ strings (Len, \o and SubSeq work on them);  *)
(* a synchronous stretch of the handler between two awaits is one action.  *)
(***************************************************************************)
EXTENDS Integers, Sequences, FiniteSets, TLC

VARIABLES
  CACHE,    \* the module-level Map, as the sequence of its entries
  now,      \* Date.now(), in milliseconds
  env,      \* process.env: GATEWAY_TOKEN and GOOGLE_PLACES_API_KEY
  reqs,     \* the requests whose handler is still running, by slot
  arrived,  \* number of requests received so far
  sent,     \* the response the last step sent, with its request (<<>> if none)
  ops       \* the last cache operations of the cache-level specification

vars == <<CACHE, now, env, reqs, arrived, sent, ops>>

-----------------------------------------------------------------------------
(* Bounds of the model                                                     *)

\* stand-in for the cap of 5000 entries (places.ts line 8)
MaxEntries == 2
\* stand-in for the batch limit of 50 identifiers (places.ts line 85)
MaxBatch == 2
\* number of requests whose handlers may run at the same time
NumReq == 2
\* number of requests the model lets arrive
MaxRequests == 2
\* number of upstream calls in flight at the same time
MaxInFlight == 2
\* number of clock advances in the handler-level specification
MaxTicks == 1
\* number of clock advances in the cache-level specification
MaxCacheTicks == 2

-----------------------------------------------------------------------------
(* JavaScript values                                                       *)

\* undefined / absent property
Undefined == "<undefined>"
\* null: what get returns for "absent", and also the JSON value null
Null == "<null>"

\* code-unit order of the characters the model's strings use
Alphabet == " ',./0123456789:ABCDEFGHIJKLMNOPQRSTUVWXYZ_abcdefghijklmnopqrstuvwxyz"

CharAt(s, i) == SubSeq(s, i, i)

CodeUnit == [c \in {CharAt(Alphabet, i) : i \in 1..Len(Alphabet)} |->
               CHOOSE i \in 1..Len(Alphabet) : CharAt(Alphabet, i) = c]

\* a < b in the order Array.prototype.sort uses without a comparator
\* (UTF-16 code units, a proper prefix first)
RECURSIVE StrLess(_, _)
StrLess(a, b) ==
  IF Len(b) = 0 THEN FALSE
  ELSE IF Len(a) = 0 THEN TRUE
  ELSE IF CharAt(a, 1) = CharAt(b, 1)
       THEN StrLess(SubSeq(a, 2, Len(a)), SubSeq(b, 2, Len(b)))
       ELSE CodeUnit[CharAt(a, 1)] < CodeUnit[CharAt(b, 1)]

\* insert x into the sorted list s, after the elements not greater than x
RECURSIVE SortInsert(_, _)
SortInsert(s, x) ==
  IF s = <<>> THEN <<x>>
  ELSE IF StrLess(x, Head(s)) THEN <<x>> \o s
  ELSE <<Head(s)>> \o SortInsert(Tail(s), x)

\* fields.slice().sort(): a sorted copy, the argument is left as it was
RECURSIVE SortStrings(_)
SortStrings(s) ==
  IF s = <<>> THEN <<>>
  ELSE SortInsert(SortStrings(SubSeq(s, 1, Len(s) - 1)), s[Len(s)])

\* Array.prototype.join(',')
RECURSIVE JoinComma(_)
JoinComma(s) ==
  IF s = <<>> THEN ""
  ELSE IF Len(s) = 1 THEN s[1]
  ELSE s[1] \o "," \o JoinComma(Tail(s))

\* String.prototype.startsWith
startsWith(s, p) == Len(s) >= Len(p) /\ SubSeq(s, 1, Len(p)) = p

\* String.prototype.toLowerCase on the letters of the alphabet
Upper == "ABCDEFGHIJKLMNOPQRSTUVWXYZ"
Lower == "abcdefghijklmnopqrstuvwxyz"
LowerChar(c) ==
  IF \E i \in 1..26 : CharAt(Upper, i) = c
  THEN CharAt(Lower, CHOOSE i \in 1..26 : CharAt(Upper, i) = c)
  ELSE c

RECURSIVE toLowerCase(_)
toLowerCase(s) ==
  IF Len(s) = 0 THEN "" ELSE LowerChar(CharAt(s, 1)) \o toLowerCase(SubSeq(s, 2, Len(s)))

\* s has p as a substring
Includes(s, p) ==
  \E i \in 1..(Len(s) - Len(p) + 1) : SubSeq(s, i, i + Len(p) - 1) = p

-----------------------------------------------------------------------------
(* The cache: a Map keeps its keys in insertion order, so CACHE is the     *)
(* sequence of its entries, oldest key first.                              *)

\* line 7: milliseconds in a second of ttlSec
MsPerSec == 1000

CacheKeys(C) == {C[i].k : i \in 1..Len(C)}

IndexOf(C, k) == CHOOSE i \in 1..Len(C) : C[i].k = k

\* as MapSet, but a key set again moves to the end
MapSetRenew(C, k, e) ==
  Append(SelectSeq(C, LAMBDA x : x.k # k), e)

\* Map.prototype.set: an existing key keeps its place, a new key goes last
MapSet(C, k, e) ==
  IF k \in CacheKeys(C)
  THEN [C EXCEPT ![IndexOf(C, k)] = e]
  ELSE Append(C, e)

\* Map.prototype.delete
MapDelete(C, k) ==
  IF k \in CacheKeys(C)
  THEN SubSeq(C, 1, IndexOf(C, k) - 1) \o SubSeq(C, IndexOf(C, k) + 1, Len(C))
  ELSE C

\* as put, but without the eviction
putNoEvict(C, k, v, ttlSec, t) ==
  MapSet(C, k, [k |-> k, data |-> v, until |-> t + ttlSec * MsPerSec])

\* put(k, v, ttlSec) at time t: the cache afterwards
put(C, k, v, ttlSec, t) ==
  LET C1 == MapSet(C, k, [k |-> k, data |-> v, until |-> t + ttlSec * MsPerSec])
  IN  IF Len(C1) > MaxEntries THEN MapDelete(C1, C1[1].k) ELSE C1

\* as get, but without the expiry test
getStale(C, k, t) ==
  IF k \notin CacheKeys(C) THEN [ret |-> Null, cache |-> C]
  ELSE [ret |-> C[IndexOf(C, k)].data, cache |-> C]

\* get(k) at time t: the value returned and the cache afterwards
get(C, k, t) ==
  IF k \notin CacheKeys(C) THEN [ret |-> Null, cache |-> C]
  ELSE LET e == C[IndexOf(C, k)]
       IN  IF t > e.until THEN [ret |-> Null, cache |-> MapDelete(C, k)]
           ELSE [ret |-> e.data, cache |-> C]

-----------------------------------------------------------------------------
(* Configuration of the gateway                                            *)

ALLOWED == {"searchText", "nearbySearch", "details", "autocomplete", "batchDetails", "health"}

DEFAULT_FIELDS ==
  << "id", "displayName", "formattedAddress", "rating", "userRatingCount",
     "reviews.rating", "reviews.text", "reviews.publishTime",
     "reviews.relativePublishTimeDescription",
     "reviews.authorAttribution.displayName",
     "reviews.authorAttribution.uri",
     "reviews.authorAttribution.photoUri" >>

\* the ttl, in seconds, the handlers pass to put
DetailsTtlSec == 3600

\* id?.startsWith('places/') ? id.slice(7) : id
normalizeId(id) ==
  IF startsWith(id, "places/") THEN SubSeq(id, 8, Len(id)) ELSE id

\* /Error expanding 'fields' parameter/i.test(bodyText)
FieldMaskPattern(bodyText) ==
  Includes(toLowerCase(bodyText), "error expanding 'fields' parameter")

-----------------------------------------------------------------------------
(* Inputs the model draws from                                             *)

\* the shared secret and the provider credential of the environment
EnvInputs ==
  [GATEWAY_TOKEN : {Undefined, "s3cret"}, GOOGLE_PLACES_API_KEY : {Undefined, "gkey"}]

\* x-gateway-key header values: absent, the secret, another string
KeyInputs == {Undefined, "s3cret", "wrong"}

\* place identifiers in raw and in prefixed form
PlaceIdInputs == {"ChIJabc", "places/ChIJabc", "ChIJxyz"}

\* caller-supplied field lists (two permutations of one list)
FieldLists == {<<"rating", "id">>, <<"id", "rating">>}

\* the fields property of a body: absent, or one of the lists
FieldsInputs ==
  {[given |-> FALSE, list |-> <<>>]} \cup {[given |-> TRUE, list |-> f] : f \in FieldLists}

\* decoded payloads of a 2xx answer: a place object, and the JSON value null
Payloads == {"{place}", Null}

\* raw bodies of a non-2xx answer
ErrorBodies == {"Error expanding 'fields' parameter: bogus", "ERROR EXPANDING 'FIELDS' PARAMETER", "Not found"}

\* what an upstream call can come back with: a 2xx answer with a decodable
\* body, a 2xx answer whose body r.json() cannot decode, a non-2xx answer
\* with its raw body, or a fetch that rejects
Outcomes ==
  {[kind |-> "ok", status |-> 200, body |-> "", json |-> p] : p \in Payloads}
  \cup {[kind |-> "badjson", status |-> 200, body |-> "<html>", json |-> Undefined]}
  \cup {[kind |-> "fail", status |-> 400, body |-> ErrorBodies_b, json |-> Undefined] :
          ErrorBodies_b \in {"Error expanding 'fields' parameter: bogus", "Not found"}}
  \cup {[kind |-> "fail", status |-> 503, body |-> "ERROR EXPANDING 'FIELDS' PARAMETER", json |-> Undefined]}
  \cup {[kind |-> "reject", status |-> 0, body |-> "", json |-> Undefined]}

\* keys, values and ttls of the cache-level specification
CacheKeyInputs == {"k1", "k2", "k3"}
CacheValueInputs == {"v1", "v2"}
TtlSecInputs == {0, 1}

\* no cache call made yet
NoOps ==
  [last |-> <<>>,
   latest |-> [k \in CacheKeyInputs |-> <<>>],
   byInsert |-> <<>>,
   byPut |-> <<>>]

\* the tables below hold the values of the string functions on the model's
\* inputs, so that they are computed once
AllFieldLists == FieldLists \cup {DEFAULT_FIELDS}
SortedJoined == [f \in AllFieldLists |-> JoinComma(SortStrings(f))]
Joined == [f \in AllFieldLists |-> JoinComma(f)]
IsFieldMaskError == [b \in ErrorBodies \cup {"", "<html>"} |-> FieldMaskPattern(b)]
RawIdOf == [p \in PlaceIdInputs \cup {"places/" \o q : q \in PlaceIdInputs} |-> normalizeId(p)]

-----------------------------------------------------------------------------
(* Requests                                                                *)

Truthy(v) == v \notin {Undefined, Null, ""}

\* a request: method, action in the query string and in the body, the
\* x-gateway-key header and the body properties the handlers read
BodyDefaults ==
  [placeId |-> Undefined, placeIds |-> [kind |-> "undefined", list |-> <<>>],
   fields |-> [given |-> FALSE, list |-> <<>>],
   textQuery |-> Undefined, lat |-> Undefined, lng |-> Undefined, input |-> Undefined]

Request(method, q, b, key, body) ==
  [method |-> method, qAction |-> q, bAction |-> b, key |-> key, body |-> body]

\* (req.query.action || req.body?.action || '').toString()
ActionOf(in) ==
  IF Truthy(in.qAction) THEN in.qAction
  ELSE IF Truthy(in.bAction) THEN in.bAction
  ELSE ""

\* fields = DEFAULT_FIELDS when the body has no fields property
FieldsOf(in) == IF in.body.fields.given THEN in.body.fields.list ELSE DEFAULT_FIELDS

\* placeIds = [] when the body has no placeIds property
PlaceIdsOf(in) ==
  IF in.body.placeIds.kind = "undefined" THEN [kind |-> "array", list |-> <<>>]
  ELSE in.body.placeIds

\* `details:${rawId}:${fields.slice().sort().join(',')}`
cacheKeyOf(rawId, fields) == "details:" \o rawId \o ":" \o SortedJoined[fields]

Respond(status, body) == [kind |-> "respond", status |-> status, body |-> body]
Route(action) == [kind |-> "route", status |-> 0, body |-> [action |-> action]]

\* as Gate, but the gateway key is checked before the allow-list
GateKeyFirst(in, e, size) ==
  IF in.method = "OPTIONS" THEN Respond(204, [end |-> TRUE])
  ELSE IF ~Truthy(e.GATEWAY_TOKEN) \/ in.key # e.GATEWAY_TOKEN
       THEN Respond(401, [error |-> "unauthorized"])
  ELSE IF ActionOf(in) \notin ALLOWED THEN Respond(400, [error |-> "invalid_action"])
  ELSE IF ActionOf(in) = "health" THEN Respond(200, [ok |-> TRUE, cacheEntries |-> size])
  ELSE IF ~Truthy(e.GOOGLE_PLACES_API_KEY)
       THEN Respond(500, [error |-> "missing_google_api_key"])
  ELSE Route(ActionOf(in))

\* as Gate, but the provider credential is checked first of all
GateEnvironmentFirst(in, e, size) ==
  IF in.method = "OPTIONS" THEN Respond(204, [end |-> TRUE])
  ELSE IF ~Truthy(e.GOOGLE_PLACES_API_KEY) /\ ActionOf(in) # "health"
       THEN Respond(500, [error |-> "missing_google_api_key"])
  ELSE IF ActionOf(in) \notin ALLOWED THEN Respond(400, [error |-> "invalid_action"])
  ELSE IF ~Truthy(e.GATEWAY_TOKEN) \/ in.key # e.GATEWAY_TOKEN
       THEN Respond(401, [error |-> "unauthorized"])
  ELSE IF ActionOf(in) = "health" THEN Respond(200, [ok |-> TRUE, cacheEntries |-> size])
  ELSE Route(ActionOf(in))

\* as Gate, but the provider credential is checked before the health answer
GateProviderFirst(in, e, size) ==
  IF in.method = "OPTIONS" THEN Respond(204, [end |-> TRUE])
  ELSE IF ActionOf(in) \notin ALLOWED THEN Respond(400, [error |-> "invalid_action"])
  ELSE IF ~Truthy(e.GATEWAY_TOKEN) \/ in.key # e.GATEWAY_TOKEN
       THEN Respond(401, [error |-> "unauthorized"])
  ELSE IF ~Truthy(e.GOOGLE_PLACES_API_KEY)
       THEN Respond(500, [error |-> "missing_google_api_key"])
  ELSE IF ActionOf(in) = "health" THEN Respond(200, [ok |-> TRUE, cacheEntries |-> size])
  ELSE Route(ActionOf(in))

\* as Gate, but health is answered before the gateway key is checked
GateHealthOpen(in, e, size) ==
  IF in.method = "OPTIONS" THEN Respond(204, [end |-> TRUE])
  ELSE IF ActionOf(in) \notin ALLOWED THEN Respond(400, [error |-> "invalid_action"])
  ELSE IF ActionOf(in) = "health" THEN Respond(200, [ok |-> TRUE, cacheEntries |-> size])
  ELSE IF ~Truthy(e.GATEWAY_TOKEN) \/ in.key # e.GATEWAY_TOKEN
       THEN Respond(401, [error |-> "unauthorized"])
  ELSE IF ~Truthy(e.GOOGLE_PLACES_API_KEY)
       THEN Respond(500, [error |-> "missing_google_api_key"])
  ELSE Route(ActionOf(in))

\* the head of handler, up to the try block: preflight, allow-list, gateway
\* key, health, provider credential (size is CACHE.size)
Gate(in, e, size) ==
  IF in.method = "OPTIONS" THEN Respond(204, [end |-> TRUE])
  ELSE IF ActionOf(in) \notin ALLOWED THEN Respond(400, [error |-> "invalid_action"])
  ELSE IF ~Truthy(e.GATEWAY_TOKEN) \/ in.key # e.GATEWAY_TOKEN
       THEN Respond(401, [error |-> "unauthorized"])
  ELSE IF ActionOf(in) = "health" THEN Respond(200, [ok |-> TRUE, cacheEntries |-> size])
  ELSE IF ~Truthy(e.GOOGLE_PLACES_API_KEY)
       THEN Respond(500, [error |-> "missing_google_api_key"])
  ELSE Route(ActionOf(in))

-----------------------------------------------------------------------------
(* One details lookup: the single lookup of a details request or one item  *)
(* of a batchDetails request.  st is where its code stands:                *)
(*   hit     answered from the cache                                       *)
(*   fetch1  awaiting the first upstream call                              *)
(*   fetch2  awaiting the retry with the default field mask                *)
(*   ok      2xx answer decoded, stored with put and returned              *)
(*   err     non-2xx answer returned                                       *)
(*   thrown  fetch rejected or r.json() threw                              *)
(* calls are the upstream calls it issued, outs the answers it got;        *)
(* liveForm records whether, when it looked the cache up, the cache held   *)
(* an unexpired entry under the key of the same identifier in raw or       *)
(* prefixed form with a permutation of the same fields.                    *)

Call(id, fields) == [id |-> id, mask |-> Joined[fields]]

Pending(item) == item.st \in {"fetch1", "fetch2"}

\* the identifier in its raw and its prefixed form
Forms(pid) ==
  IF startsWith(pid, "places/") THEN {pid, SubSeq(pid, 8, Len(pid))}
  ELSE {pid, "places/" \o pid}

Count(f, x) == Cardinality({i \in 1..Len(f) : f[i] = x})

PermutationsOf(f) ==
  {g \in AllFieldLists : Len(g) = Len(f) /\ \A i \in 1..Len(f) : Count(g, f[i]) = Count(f, f[i])}

LiveKeys(C, t) == {C[i].k : i \in {j \in 1..Len(C) : t <= C[j].until}}

LiveForm(C, t, pid, fields) ==
  \E p \in Forms(pid), g \in PermutationsOf(fields) :
     cacheKeyOf(RawIdOf[p], g) \in LiveKeys(C, t)

\* the payload of the unexpired entry the cache holds under key, Undefined
\* when it holds none
LiveData(C, t, key) ==
  IF key \in LiveKeys(C, t) THEN C[IndexOf(C, key)].data ELSE Undefined

\* as Lookup, but the upstream call is issued whatever the cache holds
LookupAlwaysFetches(C, t, pid, fields) ==
  LET rawId    == RawIdOf[pid]
      cacheKey == cacheKeyOf(rawId, fields)
      cached   == get(C, cacheKey, t)
  IN  [cache |-> cached.cache,
       item  |-> [pid |-> pid, rawId |-> rawId, cacheKey |-> cacheKey,
                  st |-> "fetch1", calls |-> <<Call(rawId, fields)>>, outs |-> <<>>,
                  data |-> Undefined,
                  liveForm |-> LiveForm(C, t, pid, fields),
                  liveData |-> LiveData(C, t, cacheKey)]]

\* lines 90-101 and 134-145: normalize, derive the key, look the cache up,
\* and on a miss issue the first upstream call
Lookup(C, t, pid, fields) ==
  LET rawId    == RawIdOf[pid]
      cacheKey == cacheKeyOf(rawId, fields)
      cached   == get(C, cacheKey, t)
      base     == [pid |-> pid, rawId |-> rawId, cacheKey |-> cacheKey,
                   st |-> "hit", calls |-> <<>>, outs |-> <<>>, data |-> cached.ret,
                   liveForm |-> LiveForm(C, t, pid, fields),
                   liveData |-> LiveData(C, t, cacheKey)]
  IN  [cache |-> cached.cache,
       item  |-> IF Truthy(cached.ret) THEN base
                 ELSE [base EXCEPT !.st = "fetch1", !.data = Undefined,
                                   !.calls = <<Call(rawId, fields)>>]]

\* the only call of searchText, nearbySearch or autocomplete
SearchCall(endpoint) ==
  [pid |-> Undefined, rawId |-> "", cacheKey |-> "", st |-> "fetch1",
   calls |-> <<[id |-> endpoint, mask |-> ""]>>, outs |-> <<>>, data |-> Undefined,
   liveForm |-> FALSE, liveData |-> Undefined]

\* the placeIds.map callback run over the list, left to right, each up to
\* its first await
RECURSIVE FanOut(_, _, _, _)
FanOut(C, t, pids, fields) ==
  IF pids = <<>> THEN [cache |-> C, items |-> <<>>]
  ELSE LET first == Lookup(C, t, Head(pids), fields)
           rest  == FanOut(first.cache, t, Tail(pids), fields)
       IN  [cache |-> rest.cache, items |-> <<first.item>> \o rest.items]

\* as IsFieldMaskFailure, but any 400 counts
IsAny400(out) == out.status = 400

\* line 106 and line 150: the retry condition of the field-mask fallback
IsFieldMaskFailure(out) == out.status = 400 /\ IsFieldMaskError[out.body]

\* as BatchItemStep, but a non-2xx answer is thrown, not returned
BatchItemStepThrows(item, out, C, t) ==
  LET got == [item EXCEPT !.outs = Append(@, out)]
  IN  IF out.kind \in {"reject", "badjson"}
      THEN [cache |-> C, puts |-> 0, item |-> [got EXCEPT !.st = "thrown"]]
      ELSE IF out.kind = "fail"
      THEN IF item.st = "fetch1" /\ IsFieldMaskFailure(out)
           THEN [cache |-> C, puts |-> 0,
                 item |-> [got EXCEPT !.st = "fetch2",
                                      !.calls = Append(@, Call(item.rawId, DEFAULT_FIELDS))]]
           ELSE [cache |-> C, puts |-> 0, item |-> [got EXCEPT !.st = "thrown"]]
      ELSE [cache |-> put(C, item.cacheKey, out.json, DetailsTtlSec, t), puts |-> 1,
            item |-> [got EXCEPT !.st = "ok", !.data = out.json]]

\* lines 96-124: what one batch item does when its upstream call comes back
BatchItemStep(item, out, C, t) ==
  LET got == [item EXCEPT !.outs = Append(@, out)]
  IN  IF out.kind = "reject" THEN [cache |-> C, puts |-> 0, item |-> [got EXCEPT !.st = "thrown"]]
      ELSE IF out.kind = "fail"
      THEN IF item.st = "fetch1" /\ IsFieldMaskFailure(out)
           THEN [cache |-> C, puts |-> 0,
                 item |-> [got EXCEPT !.st = "fetch2",
                                      !.calls = Append(@, Call(item.rawId, DEFAULT_FIELDS))]]
           ELSE [cache |-> C, puts |-> 0, item |-> [got EXCEPT !.st = "err"]]
      ELSE IF out.kind = "badjson" THEN [cache |-> C, puts |-> 0, item |-> [got EXCEPT !.st = "thrown"]]
      ELSE [cache |-> put(C, item.cacheKey, out.json, DetailsTtlSec, t), puts |-> 1,
            item |-> [got EXCEPT !.st = "ok", !.data = out.json]]

\* as DetailsStep, but the answer of the retry is stored before r.ok is
\* tested
DetailsStepCachesRetry(item, out, C, t) ==
  LET got == [item EXCEPT !.outs = Append(@, out)]
  IN  IF out.kind = "reject" THEN [cache |-> C, puts |-> 0, item |-> [got EXCEPT !.st = "thrown"]]
      ELSE IF out.kind = "fail"
      THEN IF item.st = "fetch1" /\ IsFieldMaskFailure(out)
           THEN [cache |-> C, puts |-> 0,
                 item |-> [got EXCEPT !.st = "fetch2",
                                      !.calls = Append(@, Call(item.rawId, DEFAULT_FIELDS))]]
           ELSE IF item.st = "fetch2"
           THEN [cache |-> put(C, item.cacheKey, out.body, DetailsTtlSec, t), puts |-> 1,
                 item |-> [got EXCEPT !.st = "err"]]
           ELSE [cache |-> C, puts |-> 0, item |-> [got EXCEPT !.st = "err"]]
      ELSE IF out.kind = "badjson" THEN [cache |-> C, puts |-> 0, item |-> [got EXCEPT !.st = "thrown"]]
      ELSE [cache |-> put(C, item.cacheKey, out.json, DetailsTtlSec, t), puts |-> 1,
            item |-> [got EXCEPT !.st = "ok", !.data = out.json]]

\* lines 140-167: the same for the lookup of a details request
DetailsStep(item, out, C, t) ==
  LET got == [item EXCEPT !.outs = Append(@, out)]
  IN  IF out.kind = "reject" THEN [cache |-> C, puts |-> 0, item |-> [got EXCEPT !.st = "thrown"]]
      ELSE IF out.kind = "fail"
      THEN IF item.st = "fetch1" /\ IsFieldMaskFailure(out)
           THEN [cache |-> C, puts |-> 0,
                 item |-> [got EXCEPT !.st = "fetch2",
                                      !.calls = Append(@, Call(item.rawId, DEFAULT_FIELDS))]]
           ELSE [cache |-> C, puts |-> 0, item |-> [got EXCEPT !.st = "err"]]
      ELSE IF out.kind = "badjson" THEN [cache |-> C, puts |-> 0, item |-> [got EXCEPT !.st = "thrown"]]
      ELSE [cache |-> put(C, item.cacheKey, out.json, DetailsTtlSec, t), puts |-> 1,
            item |-> [got EXCEPT !.st = "ok", !.data = out.json]]

LastOut(item) == item.outs[Len(item.outs)]

\* the value a batch item's callback returns
Entry(item) ==
  IF item.st = "err"
  THEN [placeId |-> item.rawId, error |-> TRUE, status |-> LastOut(item).status,
        body |-> LastOut(item).body]
  ELSE [placeId |-> item.rawId, data |-> item.data, cached |-> (item.st = "hit")]

\* as GatewayException, but the fault is reported like an upstream failure
GatewayExceptionAsUpstream(out) == Respond(502, [error |-> "google_error", body |-> out.body])

\* e?.message of the fault the catch block reports
Message(out) == IF out.kind = "reject" THEN "fetch failed" ELSE "invalid json"

GatewayException(out) == Respond(500, [error |-> "gateway_exception", message |-> Message(out)])

GoogleError(out) == Respond(out.status, [error |-> "google_error", body |-> out.body])

-----------------------------------------------------------------------------
(* The state machine                                                       *)

Slots == 1..NumReq

NoRequest == Request("", Undefined, Undefined, Undefined, BodyDefaults)

Idle == [pc |-> "idle", in |-> NoRequest, items |-> <<>>, nGet |-> 0, nPut |-> 0]

Probe(m, q, b, k) == Request(m, q, b, k, BodyDefaults)

\* requests without body properties: they probe the head of the handler and
\* the validation of each handler
ProbeInputs ==
  \* preflights
  {Probe("OPTIONS", Undefined, a, k) : a \in {"details", "health", "deletePlace"}, k \in {"s3cret", "wrong"}}
  \* actions outside the allow-list, no action, and the query string going first
  \cup {Probe("POST", Undefined, "deletePlace", k) : k \in KeyInputs}
  \cup {Probe("POST", Undefined, Undefined, "s3cret"), Probe("POST", "deletePlace", "health", "s3cret"),
        Probe("POST", "health", "deletePlace", "s3cret")}
  \* allowed actions with a wrong key, without a key, with the secret
  \cup {Probe("POST", Undefined, a, "wrong") : a \in ALLOWED}
  \cup {Probe("POST", Undefined, a, Undefined) : a \in {"health", "batchDetails"}}
  \cup {Probe("POST", Undefined, a, "s3cret") : a \in ALLOWED}

\* requests with the secret as key, whose bodies exercise one handler
HandlerInputs(action, bodies) == {Request("POST", Undefined, action, "s3cret", b) : b \in bodies}

\* identifier lists of batchDetails requests, of 0 to 4 identifiers
BatchLists ==
  { <<>>, <<"ChIJxyz", "places/ChIJabc">>, <<"ChIJabc", "ChIJabc">>,
    <<"ChIJxyz", "ChIJabc", "places/ChIJabc">>, <<"ChIJabc", "ChIJxyz", "ChIJabc", "ChIJxyz">> }

\* field properties of batchDetails requests
BatchFields == {[given |-> FALSE, list |-> <<>>], [given |-> TRUE, list |-> <<"rating", "id">>]}

BatchInputs ==
  HandlerInputs("batchDetails",
    {[BodyDefaults EXCEPT !.placeIds = p, !.fields = f] :
       p \in {[kind |-> "string", list |-> <<>>]}
             \cup {[kind |-> "array", list |-> l] : l \in {b \in BatchLists : Len(b) <= MaxBatch + 1}},
       f \in BatchFields})

DetailsInputs ==
  HandlerInputs("details",
    {[BodyDefaults EXCEPT !.placeId = p, !.fields = f] :
       p \in {"ChIJabc", "places/ChIJabc"}, f \in FieldsInputs})

SearchTextInputs == HandlerInputs("searchText", {[BodyDefaults EXCEPT !.textQuery = "pizza"]})

NearbyInputs ==
  HandlerInputs("nearbySearch",
    {[BodyDefaults EXCEPT !.lat = a.lat, !.lng = a.lng] :
       a \in {[lat |-> "0", lng |-> "0"], [lat |-> Null, lng |-> "0"], [lat |-> "0", lng |-> Undefined]}})

AutocompleteInputs == HandlerInputs("autocomplete", {[BodyDefaults EXCEPT !.input = "piz"]})

Init ==
  /\ CACHE = <<>>
  /\ now = 0
  /\ env \in EnvInputs
  /\ reqs = [r \in Slots |-> Idle]
  /\ arrived = 0
  /\ sent = <<>>
  /\ ops = NoOps

\* the response of a step with the request it answers: its lookups, the
\* number of get and put calls its handler made so far, and the keys that
\* left the cache in this step
Sent(in, items, res, nGet, nPut, C) ==
  <<[in |-> in, items |-> items, status |-> res.status, body |-> res.body,
     nGet |-> nGet, nPut |-> nPut, removed |-> CacheKeys(CACHE) \ CacheKeys(C)]>>

CanArrive(r) == reqs[r].pc = "idle" /\ arrived < MaxRequests

\* as Answer, but the head of the handler sweeps the expired entries out
AnswerSweeping(r, in, res) ==
  /\ sent' = Sent(in, <<>>, res, 0, 0, CACHE)
  /\ CACHE' = SelectSeq(CACHE, LAMBDA e : now <= e.until)
  /\ arrived' = arrived + 1
  /\ UNCHANGED <<now, env, reqs, ops>>

\* a request answered by the head of the handler
Answer(r, in, res) ==
  /\ sent' = Sent(in, <<>>, res, 0, 0, CACHE)
  /\ arrived' = arrived + 1
  /\ UNCHANGED <<CACHE, now, env, reqs, ops>>

\* number of upstream calls in flight
InFlight(items) == Cardinality({i \in 1..Len(items) : Pending(items[i])})

RECURSIVE SumInFlight(_)
SumInFlight(S) ==
  IF S = {} THEN 0
  ELSE LET r == CHOOSE x \in S : TRUE IN InFlight(reqs[r].items) + SumInFlight(S \ {r})

\* a request whose handler awaits its upstream calls; the model admits it
\* while at most MaxInFlight upstream calls are in flight
Await(r, in, items, C, nGet) ==
  /\ SumInFlight(Slots) + InFlight(items) <= MaxInFlight
  /\ reqs' = [reqs EXCEPT ![r] = [pc |-> "awaiting", in |-> in, items |-> items,
                                  nGet |-> nGet, nPut |-> 0]]
  /\ CACHE' = C
  /\ sent' = <<>>
  /\ arrived' = arrived + 1
  /\ UNCHANGED <<now, env, ops>>

\* line 58: the CORS preflight
Preflight(r) ==
  /\ CanArrive(r)
  /\ \E in \in ProbeInputs :
       LET g == Gate(in, env, Len(CACHE))
       IN  g.kind = "respond" /\ g.status = 204 /\ Answer(r, in, g)

\* lines 61, 66, 74: invalid action, unauthorized, missing provider credential
Refuse(r) ==
  /\ CanArrive(r)
  /\ \E in \in ProbeInputs :
       LET g == Gate(in, env, Len(CACHE))
       IN  g.kind = "respond" /\ g.status \in {400, 401, 500} /\ Answer(r, in, g)

\* lines 69-71: health
Health(r) ==
  /\ CanArrive(r)
  /\ \E in \in ProbeInputs :
       LET g == Gate(in, env, Len(CACHE))
       IN  g.kind = "respond" /\ g.status = 200 /\ Answer(r, in, g)

Routed(in, action) == Gate(in, env, Len(CACHE)) = Route(action)

AllSettled(items) == \A i \in 1..Len(items) : ~Pending(items[i])

\* as Results, but the entries come last identifier first
ResultsReversed(items) == [i \in 1..Len(items) |-> Entry(items[Len(items) + 1 - i])]

\* line 89 and line 127: the array Promise.all resolves to
Results(items) == [i \in 1..Len(items) |-> Entry(items[i])]

\* as BatchValidation, but the limit is off by one
BatchValidationOffByOne(placeIds) ==
  IF placeIds.kind # "array" \/ Len(placeIds.list) = 0 THEN "placeIds_required"
  ELSE IF Len(placeIds.list) > MaxBatch + 1 THEN "too_many_placeIds_max_50"
  ELSE ""

\* lines 82-87: the error code for the placeIds of a batchDetails request,
\* "" when they pass
BatchValidation(placeIds) ==
  IF placeIds.kind # "array" \/ Len(placeIds.list) = 0 THEN "placeIds_required"
  ELSE IF Len(placeIds.list) > MaxBatch THEN "too_many_placeIds_max_50"
  ELSE ""

\* lines 77-101: batchDetails up to the await of Promise.all
BatchDetails(r) ==
  /\ CanArrive(r)
  /\ \E in \in ProbeInputs \cup BatchInputs :
       /\ Routed(in, "batchDetails")
       /\ LET placeIds == PlaceIdsOf(in)
              fan      == FanOut(CACHE, now, placeIds.list, FieldsOf(in))
          IN  IF BatchValidation(placeIds) # ""
              THEN Answer(r, in, Respond(400, [error |-> BatchValidation(placeIds)]))
              ELSE IF AllSettled(fan.items)
              THEN /\ sent' = Sent(in, fan.items, Respond(200, [results |-> Results(fan.items)]),
                                   Len(fan.items), 0, fan.cache)
                   /\ CACHE' = fan.cache
                   /\ arrived' = arrived + 1
                   /\ UNCHANGED <<now, env, reqs, ops>>
              ELSE Await(r, in, fan.items, fan.cache, Len(fan.items))

\* lines 130-145: details up to the await of the first upstream call
Details(r) ==
  /\ CanArrive(r)
  /\ \E in \in ProbeInputs \cup DetailsInputs :
       /\ Routed(in, "details")
       /\ IF ~Truthy(in.body.placeId)
          THEN Answer(r, in, Respond(400, [error |-> "placeId_required"]))
          ELSE LET look == Lookup(CACHE, now, in.body.placeId, FieldsOf(in))
               IN  IF look.item.st = "hit"
                   THEN /\ sent' = Sent(in, <<look.item>>,
                                        Respond(200, [data |-> look.item.data, cached |-> TRUE]), 1, 0,
                                        look.cache)
                        /\ CACHE' = look.cache
                        /\ arrived' = arrived + 1
                        /\ UNCHANGED <<now, env, reqs, ops>>
                   ELSE Await(r, in, <<look.item>>, look.cache, 1)

\* lines 170-183: searchText up to the await of its upstream call
SearchText(r) ==
  /\ CanArrive(r)
  /\ \E in \in ProbeInputs \cup SearchTextInputs :
       /\ Routed(in, "searchText")
       /\ IF ~Truthy(in.body.textQuery)
          THEN Answer(r, in, Respond(400, [error |-> "textQuery_required"]))
          ELSE Await(r, in, <<SearchCall("text:search")>>, CACHE, 0)

\* lines 189-208: nearbySearch up to the await of its upstream call
NearbySearch(r) ==
  /\ CanArrive(r)
  /\ \E in \in ProbeInputs \cup NearbyInputs :
       /\ Routed(in, "nearbySearch")
       /\ IF in.body.lat \in {Null, Undefined} \/ in.body.lng \in {Null, Undefined}
          THEN Answer(r, in, Respond(400, [error |-> "lat_lng_required"]))
          ELSE Await(r, in, <<SearchCall("places:searchNearby")>>, CACHE, 0)

\* lines 214-227: autocomplete up to the await of its upstream call
Autocomplete(r) ==
  /\ CanArrive(r)
  /\ \E in \in ProbeInputs \cup AutocompleteInputs :
       /\ Routed(in, "autocomplete")
       /\ IF ~Truthy(in.body.input)
          THEN Answer(r, in, Respond(400, [error |-> "input_required"]))
          ELSE Await(r, in, <<SearchCall("places:autocomplete")>>, CACHE, 0)

Awaiting(r, action) == reqs[r].pc # "idle" /\ ActionOf(reqs[r].in) = action

\* the handler of slot r sends res (or nothing, when res is <<>>) and either
\* goes on with the items still awaiting upstream or is over
Continue(r, items, res, nPut, C) ==
  LET q == reqs[r]
      answered == q.pc = "sent" \/ res # <<>>
  IN  /\ CACHE' = C
      /\ sent' = IF res = <<>> THEN <<>> ELSE Sent(q.in, items, res[1], q.nGet, nPut, C)
      /\ reqs' = [reqs EXCEPT ![r] =
                    IF answered /\ AllSettled(items) THEN Idle
                    ELSE [q EXCEPT !.items = items, !.nPut = nPut,
                                   !.pc = IF answered THEN "sent" ELSE "awaiting"]]
      /\ UNCHANGED <<now, env, arrived, ops>>

\* lines 146-167: an upstream call of a details request comes back
DetailsReply(r) ==
  /\ Awaiting(r, "details")
  /\ \E out \in Outcomes :
       LET step == DetailsStep(reqs[r].items[1], out, CACHE, now)
           res  == IF step.item.st = "fetch2" THEN <<>>
                   ELSE IF step.item.st = "thrown" THEN <<GatewayException(out)>>
                   ELSE IF step.item.st = "err" THEN <<GoogleError(out)>>
                   ELSE <<Respond(200, [data |-> step.item.data, cached |-> FALSE])>>
       IN  Continue(r, <<step.item>>, res, reqs[r].nPut + step.puts, step.cache)

\* lines 102-127 and 234-236: an upstream call of item i of a batchDetails
\* request comes back; Promise.all settles when the last item returns or
\* the first one throws
BatchItemReply(r, i) ==
  /\ Awaiting(r, "batchDetails")
  /\ i \in 1..Len(reqs[r].items)
  /\ Pending(reqs[r].items[i])
  /\ \E out \in Outcomes :
       LET step  == BatchItemStep(reqs[r].items[i], out, CACHE, now)
           items == [reqs[r].items EXCEPT ![i] = step.item]
           res   == IF reqs[r].pc = "sent" THEN <<>>
                    ELSE IF step.item.st = "thrown" THEN <<GatewayException(out)>>
                    ELSE IF AllSettled(items) THEN <<Respond(200, [results |-> Results(items)])>>
                    ELSE <<>>
       IN  Continue(r, items, res, reqs[r].nPut + step.puts, step.cache)

\* lines 184-186, 209-211, 228-230: the upstream call of a search comes back
SearchReply(r) ==
  /\ reqs[r].pc = "awaiting"
  /\ ActionOf(reqs[r].in) \in {"searchText", "nearbySearch", "autocomplete"}
  /\ \E out \in Outcomes :
       LET item == [reqs[r].items[1] EXCEPT
                      !.outs = Append(@, out),
                      !.st = IF out.kind = "ok" THEN "ok" ELSE IF out.kind = "fail" THEN "err" ELSE "thrown",
                      !.data = out.json]
           res  == IF out.kind = "fail" THEN GoogleError(out)
                   ELSE IF out.kind = "ok" THEN Respond(200, [data |-> out.json])
                   ELSE GatewayException(out)
       IN  Continue(r, <<item>>, <<res>>, 0, CACHE)

\* the clock advances by a little more than the ttl of a details entry
TickMs == DetailsTtlSec * MsPerSec + 1

Tick ==
  /\ now < MaxTicks * TickMs
  /\ now' = now + TickMs
  /\ sent' = <<>>
  /\ UNCHANGED <<CACHE, env, reqs, arrived, ops>>

Next ==
  \/ \E r \in Slots : Preflight(r)
  \/ \E r \in Slots : Refuse(r)
  \/ \E r \in Slots : Health(r)
  \/ \E r \in Slots : BatchDetails(r)
  \/ \E r \in Slots : Details(r)
  \/ \E r \in Slots : SearchText(r)
  \/ \E r \in Slots : NearbySearch(r)
  \/ \E r \in Slots : Autocomplete(r)
  \/ \E r \in Slots : DetailsReply(r)
  \/ \E r \in Slots, i \in 1..(MaxBatch + 1) : BatchItemReply(r, i)
  \/ \E r \in Slots : SearchReply(r)
  \/ Tick

Spec == Init /\ [][Next]_vars

\* The handler with fairness: a request waits for nothing but its own
\* upstream calls, so this specification runs one request at a time.
LiveSlots == {1}

NextLive ==
  \/ \E r \in LiveSlots : Preflight(r)
  \/ \E r \in LiveSlots : Refuse(r)
  \/ \E r \in LiveSlots : Health(r)
  \/ \E r \in LiveSlots : BatchDetails(r)
  \/ \E r \in LiveSlots : Details(r)
  \/ \E r \in LiveSlots : SearchText(r)
  \/ \E r \in LiveSlots : NearbySearch(r)
  \/ \E r \in LiveSlots : Autocomplete(r)
  \/ \E r \in LiveSlots : DetailsReply(r)
  \/ \E r \in LiveSlots, i \in 1..(MaxBatch + 1) : BatchItemReply(r, i)
  \/ \E r \in LiveSlots : SearchReply(r)
  \/ Tick

\* every upstream call comes back: with an answer, or as a fetch that rejects
UpstreamCompletes ==
  \A r \in LiveSlots :
    /\ WF_vars(DetailsReply(r))
    /\ WF_vars(SearchReply(r))
    /\ \A i \in 1..(MaxBatch + 1) : WF_vars(BatchItemReply(r, i))

SpecLive == Init /\ [][NextLive]_vars /\ UpstreamCompletes

-----------------------------------------------------------------------------
(* The cache on its own: put and get called with any key, value and ttl,   *)
(* and the clock advancing in between.  ops keeps what the last call did   *)
(* and, per key, the latest put and the order of the keys by first         *)
(* insertion and by latest put.                                            *)

\* the clock of the cache-level specification advances by a second
CacheTickMs == MsPerSec

KeySeq(C) == [i \in 1..Len(C) |-> C[i].k]

RECURSIVE Without(_, _)
Without(s, x) ==
  IF s = <<>> THEN <<>>
  ELSE IF Head(s) = x THEN Without(Tail(s), x)
  ELSE <<Head(s)>> \o Without(Tail(s), x)

Range(s) == {s[i] : i \in 1..Len(s)}

InitCache ==
  /\ CACHE = <<>>
  /\ now = 0
  /\ env = [GATEWAY_TOKEN |-> "s3cret", GOOGLE_PLACES_API_KEY |-> "gkey"]
  /\ reqs = [r \in Slots |-> Idle]
  /\ arrived = 0
  /\ sent = <<>>
  /\ ops = NoOps

\* what a call did: the value returned, the cache keys before and after,
\* the orders and the latest put of the key before the call, and the call
\* made just before it if the clock has not advanced since
OpRecord(op, k, v, ttlSec, ret, C1) ==
  [op |-> op, k |-> k, v |-> v, ttlSec |-> ttlSec, t |-> now, ret |-> ret,
   keysBefore |-> KeySeq(CACHE), keysAfter |-> KeySeq(C1),
   byInsertBefore |-> ops.byInsert, byPutBefore |-> ops.byPut,
   latestBefore |-> ops.latest[k],
   prevOp |-> IF ops.last = <<>> \/ ops.last[1].t # now THEN "" ELSE ops.last[1].op,
   prevKey |-> IF ops.last = <<>> \/ ops.last[1].t # now THEN "" ELSE ops.last[1].k]

\* the order after a call: a key new to the order goes last (and so does a
\* key put again, when renew), keys no longer in the cache leave it
OrderAfter(order, k, C1, renew) ==
  LET placed == IF k \in Range(order) /\ ~renew THEN order ELSE Append(Without(order, k), k)
  IN  SelectSeq(placed, LAMBDA x : x \in CacheKeys(C1))

\* the latest put per key; of a key no longer in the cache only that it
\* was stored once
LatestAfter(latest, C1) ==
  [k \in CacheKeyInputs |->
     IF latest[k] # <<>> /\ k \notin CacheKeys(C1)
     THEN <<[v |-> Null, until |-> 0, gone |-> TRUE]>>
     ELSE latest[k]]

CachePut(k, v, ttlSec) ==
  LET C1 == put(CACHE, k, v, ttlSec, now)
      stored == [ops.latest EXCEPT ![k] = <<[v |-> v, until |-> now + ttlSec * MsPerSec, gone |-> FALSE]>>]
  IN  /\ CACHE' = C1
      /\ ops' = [last |-> <<OpRecord("put", k, v, ttlSec, Null, C1)>>,
                 latest |-> LatestAfter(stored, C1),
                 byInsert |-> OrderAfter(ops.byInsert, k, C1, FALSE),
                 byPut |-> OrderAfter(ops.byPut, k, C1, TRUE)]
      /\ UNCHANGED <<now, env, reqs, arrived, sent>>

CacheGet(k) ==
  LET g == get(CACHE, k, now)
  IN  /\ CACHE' = g.cache
      /\ ops' = [last |-> <<OpRecord("get", k, Null, 0, g.ret, g.cache)>>,
                 latest |-> LatestAfter(ops.latest, g.cache),
                 byInsert |-> SelectSeq(ops.byInsert, LAMBDA x : x \in CacheKeys(g.cache)),
                 byPut |-> SelectSeq(ops.byPut, LAMBDA x : x \in CacheKeys(g.cache))]
      /\ UNCHANGED <<now, env, reqs, arrived, sent>>

CacheTick ==
  /\ now < MaxCacheTicks * CacheTickMs
  /\ now' = now + CacheTickMs
  /\ UNCHANGED <<CACHE, env, reqs, arrived, sent, ops>>

NextCache ==
  \/ \E k \in CacheKeyInputs, v \in CacheValueInputs, ttlSec \in TtlSecInputs : CachePut(k, v, ttlSec)
  \/ \E k \in CacheKeyInputs : CacheGet(k)
  \/ CacheTick

SpecCache == InitCache /\ [][NextCache]_vars

-----------------------------------------------------------------------------
(* Properties of the handler                                               *)

\* the request a response was sent for in the last step
Answered == sent[1]

\* the request got past the preflight and both credential checks
PassedCredentialChecks(in) ==
  /\ in.method # "OPTIONS"
  /\ Truthy(env.GATEWAY_TOKEN)
  /\ in.key = env.GATEWAY_TOKEN
  /\ Truthy(env.GOOGLE_PLACES_API_KEY)

\* every upstream call the lookups got an answer for came back with an
\* HTTP answer, and every 2xx body could be decoded
HttpAnswersOnly(items) ==
  \A i \in 1..Len(items) : \A j \in 1..Len(items[i].outs) : items[i].outs[j].kind \in {"ok", "fail"}

IsDetailsAction(in) == ActionOf(in) \in {"details", "batchDetails"}

\* the details lookups under way and those of the request just answered
DetailsLookups ==
  UNION {{reqs[r].items[i] : i \in 1..Len(reqs[r].items)} :
           r \in {x \in Slots : reqs[x].pc # "idle" /\ IsDetailsAction(reqs[x].in)}}
  \cup (IF sent # <<>> /\ IsDetailsAction(Answered.in)
        THEN {Answered.items[i] : i \in 1..Len(Answered.items)} ELSE {})

\* C1: a batchDetails request that passed the credential checks, with 1 to
\* MaxBatch identifiers, whose upstream calls all come back with an HTTP
\* answer (2xx with a decodable body, or non-2xx) is answered 200 with one
\* entry per identifier: an error entry with the status and body of the
\* failed call for an identifier whose lookup failed, a success entry for
\* every other; and it is answered as soon as its last lookup is over
BatchIsolation ==
  /\ \A r \in Slots : reqs[r].pc = "awaiting" => ~AllSettled(reqs[r].items)
  /\ (/\ sent # <<>>
      /\ ActionOf(Answered.in) = "batchDetails"
      /\ PassedCredentialChecks(Answered.in)
      /\ PlaceIdsOf(Answered.in).kind = "array"
      /\ Len(PlaceIdsOf(Answered.in).list) \in 1..MaxBatch
      /\ HttpAnswersOnly(Answered.items))
     => /\ Answered.status = 200
        /\ DOMAIN Answered.body = {"results"}
        /\ Len(Answered.body.results) = Len(PlaceIdsOf(Answered.in).list)
        /\ Len(Answered.items) = Len(PlaceIdsOf(Answered.in).list)
        /\ \A i \in 1..Len(Answered.items) :
             LET it == Answered.items[i]
                 e  == Answered.body.results[i]
             IN  IF it.outs # <<>> /\ LastOut(it).kind = "fail"
                 THEN /\ DOMAIN e = {"placeId", "error", "status", "body"}
                      /\ e.error = TRUE
                      /\ e.status = LastOut(it).status
                      /\ e.body = LastOut(it).body
                 ELSE /\ DOMAIN e = {"placeId", "data", "cached"}
                      /\ e.cached = (it.outs = <<>>)
                      /\ it.outs # <<>> => e.data = LastOut(it).json

\* a batch answered with one error entry next to one success entry
BatchWithOneFailure ==
  /\ sent # <<>>
  /\ ActionOf(Answered.in) = "batchDetails"
  /\ Answered.status = 200
  /\ Len(Answered.items) = 2
  /\ Answered.items[1].st = "err"
  /\ Answered.items[2].st = "ok"

\* C2: a details lookup issues at most two upstream calls, all for its
\* normalized identifier; it issues the second if and only if the first came
\* back 400 with a body matching the field-expansion pattern, and the second
\* carries the default field mask
FallbackOnce ==
  \A it \in DetailsLookups :
    /\ Len(it.calls) <= 2
    /\ Len(it.outs) <= Len(it.calls)
    /\ \A j \in 1..Len(it.calls) : it.calls[j].id = RawIdOf[it.pid]
    /\ (it.outs # <<>>) =>
         (Len(it.calls) = 2 <=>
            (it.outs[1].kind = "fail" /\ it.outs[1].status = 400 /\ IsFieldMaskError[it.outs[1].body]))
    /\ (it.outs = <<>>) => Len(it.calls) <= 1
    /\ (Len(it.calls) = 2) => it.calls[2].mask = Joined[DEFAULT_FIELDS]

\* a lookup whose retry failed with the field-expansion error as well
FallbackFailedAgain ==
  \E it \in DetailsLookups :
    /\ Len(it.calls) = 2
    /\ Len(it.outs) = 2
    /\ it.outs[2].kind = "fail"
    /\ it.outs[2].status = 400
    /\ IsFieldMaskError[it.outs[2].body]
    /\ it.st = "err"

\* C3: when the last upstream call of a searchText, nearbySearch,
\* autocomplete or details request comes back non-2xx, the response has its
\* status and the body {error: 'google_error', body: <its body>}; when the
\* last call of a batchDetails item comes back non-2xx, the response is 200
\* and the item's entry is {error: true, status, body} with its status and body
UpstreamFailurePassthrough ==
  (sent # <<>>) =>
    \A i \in 1..Len(Answered.items) :
      LET it == Answered.items[i]
      IN  (it.st = "err") =>
            IF ActionOf(Answered.in) = "batchDetails"
            THEN /\ Answered.status = 200
                 /\ DOMAIN Answered.body = {"results"}
                 /\ DOMAIN Answered.body.results[i] = {"placeId", "error", "status", "body"}
                 /\ Answered.body.results[i].status = LastOut(it).status
                 /\ Answered.body.results[i].body = LastOut(it).body
            ELSE /\ Answered.status = LastOut(it).status
                 /\ Answered.body = [error |-> "google_error", body |-> LastOut(it).body]

\* the identifiers of the model in raw form
RawIds == {"ChIJabc", "ChIJxyz"}

\* an identifier and the same identifier prefixed with places/, with field
\* lists that are permutations of each other, have the same cache key
SameKeyForAllForms ==
  \A x \in RawIds, f \in AllFieldLists :
    \A g \in PermutationsOf(f) :
      cacheKeyOf(RawIdOf[x], f) = cacheKeyOf(RawIdOf["places/" \o x], g)

\* C7: an identifier and the same identifier prefixed with places/, with
\* field lists that are permutations of each other, have the same cache key;
\* so a lookup made while the cache holds an unexpired entry under the key of
\* such a form is answered from the cache and issues no upstream call
KeyNormalizationHit ==
  /\ SameKeyForAllForms
  /\ \A it \in DetailsLookups : it.liveForm => (it.st = "hit" /\ it.calls = <<>>)

\* C8: a request that is no preflight and whose action is not in the
\* allow-list is answered 400 invalid_action whatever its key and the
\* environment are, and no handler runs for it
InvalidAction ==
  /\ \A r \in Slots : reqs[r].pc # "idle" => ActionOf(reqs[r].in) \in ALLOWED
  /\ (sent # <<>> /\ Answered.in.method # "OPTIONS" /\ ActionOf(Answered.in) \notin ALLOWED)
     => /\ Answered.status = 400
        /\ Answered.body = [error |-> "invalid_action"]
        /\ Answered.items = <<>>
        /\ Answered.nGet = 0 /\ Answered.nPut = 0

\* an action outside the allow-list answered 400 although the key is wrong
InvalidActionWithWrongKey ==
  /\ sent # <<>>
  /\ Answered.in.method # "OPTIONS"
  /\ ActionOf(Answered.in) = "deletePlace"
  /\ Truthy(env.GATEWAY_TOKEN)
  /\ Answered.in.key # env.GATEWAY_TOKEN
  /\ Answered.status = 400

KeyMismatch(in) == ~Truthy(env.GATEWAY_TOKEN) \/ in.key # env.GATEWAY_TOKEN

Unauthorized401 ==
  /\ Answered.status = 401
  /\ Answered.body = [error |-> "unauthorized"]
  /\ Answered.items = <<>>
  /\ Answered.nGet = 0 /\ Answered.nPut = 0

\* no handler runs for a request whose key does not match the secret
NoHandlerWithoutKey == \A r \in Slots : reqs[r].pc # "idle" => ~KeyMismatch(reqs[r].in)

\* C9 as stated: every request for an allowed action whose key is missing or
\* differs from the secret, or that arrives while the secret is unset, is
\* answered 401 unauthorized, and no handler runs for it
UnauthorizedAnyRequest ==
  /\ NoHandlerWithoutKey
  /\ (sent # <<>> /\ ActionOf(Answered.in) \in ALLOWED /\ KeyMismatch(Answered.in))
     => Unauthorized401

\* C9 as amended: the same of every request that is no preflight
UnauthorizedUnlessPreflight ==
  /\ NoHandlerWithoutKey
  /\ (sent # <<>> /\ Answered.in.method # "OPTIONS" /\ ActionOf(Answered.in) \in ALLOWED
        /\ KeyMismatch(Answered.in))
     => Unauthorized401

\* a health request with a wrong key answered 401
HealthWithWrongKey ==
  /\ sent # <<>>
  /\ Answered.in.method # "OPTIONS"
  /\ ActionOf(Answered.in) = "health"
  /\ Truthy(env.GATEWAY_TOKEN)
  /\ Answered.in.key = "wrong"
  /\ Answered.status = 401

\* C10: a batchDetails request that passed the credential checks is
\* answered 400 too_many_placeIds_max_50 when placeIds has more than MaxBatch
\* entries and 400 placeIds_required when placeIds is empty or no list; no
\* lookup runs for it, so it makes no upstream call and no get or put
BatchSizeBound ==
  /\ \A r \in Slots :
       (reqs[r].pc # "idle" /\ ActionOf(reqs[r].in) = "batchDetails")
         => (PlaceIdsOf(reqs[r].in).kind = "array" /\ Len(PlaceIdsOf(reqs[r].in).list) \in 1..MaxBatch)
  /\ (sent # <<>> /\ ActionOf(Answered.in) = "batchDetails" /\ PassedCredentialChecks(Answered.in))
     => LET placeIds == PlaceIdsOf(Answered.in)
            refused  == /\ Answered.status = 400
                        /\ Answered.items = <<>>
                        /\ Answered.nGet = 0 /\ Answered.nPut = 0
                        /\ Answered.removed = {}
        IN  /\ (placeIds.kind = "array" /\ Len(placeIds.list) > MaxBatch)
               => (refused /\ Answered.body = [error |-> "too_many_placeIds_max_50"])
            /\ (placeIds.kind # "array" \/ Len(placeIds.list) = 0)
               => (refused /\ Answered.body = [error |-> "placeIds_required"])

\* a batch of more than MaxBatch identifiers refused
OversizedBatchRefused ==
  /\ sent # <<>>
  /\ ActionOf(Answered.in) = "batchDetails"
  /\ PlaceIdsOf(Answered.in).kind = "array"
  /\ Len(PlaceIdsOf(Answered.in).list) > MaxBatch
  /\ Answered.status = 400
  /\ Answered.body = [error |-> "too_many_placeIds_max_50"]

\* the request carries the configured secret as its gateway key
ValidKey(in) == Truthy(env.GATEWAY_TOKEN) /\ in.key = env.GATEWAY_TOKEN

\* the answer a is the health answer for a cache of n entries, sent without
\* any lookup, get, put or upstream call
HealthAnswer(a, n) ==
  /\ a.status = 200
  /\ a.body = [ok |-> TRUE, cacheEntries |-> n]
  /\ a.items = <<>>
  /\ a.nGet = 0 /\ a.nPut = 0

\* C11 as stated: every health request with a valid gateway key is answered
\* 200 {ok: true, cacheEntries: n}, n being the number of entries in the
\* cache, whether or not the provider credential is set; it makes no
\* upstream call and leaves the cache as it was
HealthAnyRequest ==
  [][(sent' # <<>> /\ ActionOf(sent'[1].in) = "health" /\ ValidKey(sent'[1].in))
       => (HealthAnswer(sent'[1], Len(CACHE)) /\ CACHE' = CACHE)]_vars

\* C11 as amended: the same of every health request that is no preflight
HealthUnlessPreflight ==
  [][(sent' # <<>> /\ sent'[1].in.method # "OPTIONS" /\ ActionOf(sent'[1].in) = "health"
        /\ ValidKey(sent'[1].in))
       => (HealthAnswer(sent'[1], Len(CACHE)) /\ CACHE' = CACHE)]_vars

\* a health request answered 200 while the provider credential is unset
HealthWithoutProviderKey ==
  /\ sent # <<>>
  /\ Answered.in.method # "OPTIONS"
  /\ ActionOf(Answered.in) = "health"
  /\ ValidKey(Answered.in)
  /\ ~Truthy(env.GOOGLE_PLACES_API_KEY)
  /\ HealthAnswer(Answered, Len(CACHE))

\* the answer a is the configuration fault, sent without any lookup, get,
\* put or upstream call
ConfigFaultAnswer(a) ==
  /\ a.status = 500
  /\ a.body = [error |-> "missing_google_api_key"]
  /\ a.items = <<>>
  /\ a.nGet = 0 /\ a.nPut = 0

\* while the provider credential is missing, a request that is no preflight
\* and fails the allow-list is still answered 400 invalid_action, one that
\* passes it and fails the key check is still answered 401 unauthorized,
\* and no handler runs
EarlierChecksKeepTheirAnswer(a, q) ==
  ~Truthy(env.GOOGLE_PLACES_API_KEY) =>
    /\ \A r \in Slots : q[r].pc = "idle"
    /\ (a # <<>> /\ a[1].in.method # "OPTIONS") =>
         /\ ActionOf(a[1].in) \notin ALLOWED
              => (a[1].status = 400 /\ a[1].body = [error |-> "invalid_action"])
         /\ (ActionOf(a[1].in) \in ALLOWED /\ ~ValidKey(a[1].in))
              => (a[1].status = 401 /\ a[1].body = [error |-> "unauthorized"])

\* the request asks for an allowed action other than health with a valid
\* gateway key while the provider credential is missing
NeedsProviderKey(in) ==
  /\ ActionOf(in) \in ALLOWED \ {"health"}
  /\ ValidKey(in)
  /\ ~Truthy(env.GOOGLE_PLACES_API_KEY)

\* C12 as stated: every request for an allowed action other than health
\* that carries a valid gateway key while the provider credential is
\* missing is answered 500 missing_google_api_key with no upstream call and
\* no cache access; and the missing credential never replaces the 400
\* invalid_action or the 401 unauthorized of a request failing those checks
ConfigFaultAnyRequest ==
  [][/\ EarlierChecksKeepTheirAnswer(sent', reqs')
     /\ (sent' # <<>> /\ NeedsProviderKey(sent'[1].in))
          => (ConfigFaultAnswer(sent'[1]) /\ CACHE' = CACHE)]_vars

\* C12 as amended: the same of every request that is no preflight
ConfigFaultUnlessPreflight ==
  [][/\ EarlierChecksKeepTheirAnswer(sent', reqs')
     /\ (sent' # <<>> /\ sent'[1].in.method # "OPTIONS" /\ NeedsProviderKey(sent'[1].in))
          => (ConfigFaultAnswer(sent'[1]) /\ CACHE' = CACHE)]_vars

\* a details request with a valid key answered 500 for the missing credential
DetailsWithoutProviderKey ==
  /\ sent # <<>>
  /\ Answered.in.method # "OPTIONS"
  /\ ActionOf(Answered.in) = "details"
  /\ NeedsProviderKey(Answered.in)
  /\ ConfigFaultAnswer(Answered)

\* C13: the response of a batchDetails request is sent only when every
\* lookup of the batch is over, whichever way it ended, so that no lookup
\* of the batch is in flight once the response is sent; and a batch whose
\* response has been sent changes the cache no more
BatchCompletion ==
  [][/\ (sent' # <<>> /\ ActionOf(sent'[1].in) = "batchDetails") => AllSettled(sent'[1].items)
     /\ \A r \in Slots :
          (reqs'[r].pc # "idle" /\ ActionOf(reqs'[r].in) = "batchDetails") => reqs'[r].pc = "awaiting"
     /\ \A r \in Slots :
          (reqs[r].pc = "sent" /\ ActionOf(reqs[r].in) = "batchDetails" /\ reqs'[r] # reqs[r])
            => CACHE' = CACHE]_vars

\* C13, its last part alone: a batch whose response has been sent changes
\* the cache no more
NoWriteAfterBatchResponse ==
  [][\A r \in Slots :
       (reqs[r].pc = "sent" /\ ActionOf(reqs[r].in) = "batchDetails" /\ reqs'[r] # reqs[r])
         => CACHE' = CACHE]_vars

\* the requests whose handler is running or has just answered, each with
\* its lookups and the number of get calls it made
Handled ==
  {[in |-> reqs[r].in, items |-> reqs[r].items, nGet |-> reqs[r].nGet] :
     r \in {x \in Slots : reqs[x].pc # "idle"}}
  \cup (IF sent = <<>> THEN {}
        ELSE {[in |-> Answered.in, items |-> Answered.items, nGet |-> Answered.nGet]})

ItemsAfter(r) ==
  IF reqs'[r].pc # "idle" THEN reqs'[r].items
  ELSE IF sent' # <<>> /\ sent'[1].in = reqs[r].in THEN sent'[1].items
  ELSE <<>>

\* entry e of the next cache was written in this step, and it holds the
\* decoded payload of a 2xx answer, under the key of a details lookup that
\* was awaiting its upstream call, with the ttl of a details entry
WrittenBySuccess(e) ==
  /\ \E out \in Outcomes : out.kind = "ok" /\ e.data = out.json
  /\ e.until = now + DetailsTtlSec * MsPerSec
  /\ \E r \in Slots :
       /\ reqs[r].pc # "idle"
       /\ IsDetailsAction(reqs[r].in)
       /\ reqs'[r] # reqs[r]
       /\ \E i \in 1..Len(reqs[r].items) :
            /\ Pending(reqs[r].items[i])
            /\ reqs[r].items[i].cacheKey = e.k
            /\ e.k = cacheKeyOf(RawIdOf[reqs[r].items[i].pid], FieldsOf(reqs[r].in))

\* key k leaves the cache in this step because a lookup of k found its
\* entry expired
ExpiredOnRead(k) ==
  /\ now > CACHE[IndexOf(CACHE, k)].until
  /\ \E r \in Slots :
       /\ reqs[r].pc = "idle"
       /\ reqs'[r].pc = "awaiting"
       /\ \E i \in 1..Len(reqs'[r].items) : reqs'[r].items[i].cacheKey = k

\* key k leaves the cache in this step because a put of a new key found the
\* cache full and k was its first key
EvictedByPut(k) ==
  /\ Len(CACHE) = MaxEntries
  /\ k = CACHE[1].k
  /\ CacheKeys(CACHE') \ CacheKeys(CACHE) # {}

\* C15: every entry that enters the cache or is overwritten holds the
\* decoded payload of a 2xx answer to a details lookup of the entry's
\* identifier; a step in which a lookup gets a non-2xx answer, a rejected
\* call or an undecodable body leaves the cache as it was; and a key leaves
\* the cache only when a read finds it expired or a put evicts it
OnlySuccessesCached ==
  [][/\ \A j \in 1..Len(CACHE') : (CACHE'[j] \notin Range(CACHE)) => WrittenBySuccess(CACHE'[j])
     /\ \A r \in Slots :
          (reqs[r].pc # "idle" /\ reqs'[r] # reqs[r]) =>
            \A i \in 1..Len(ItemsAfter(r)) :
              (ItemsAfter(r)[i] # reqs[r].items[i] /\ ItemsAfter(r)[i].st \in {"err", "fetch2", "thrown"})
                => CACHE' = CACHE
     /\ \A k \in CacheKeys(CACHE) \ CacheKeys(CACHE') : ExpiredOnRead(k) \/ EvictedByPut(k)]_vars

\* the retry of a lookup failed and the cache holds nothing under its key
RetryFailedNothingCached ==
  /\ sent # <<>>
  /\ ActionOf(Answered.in) = "details"
  /\ Answered.items # <<>>
  /\ Len(Answered.items[1].outs) = 2
  /\ Answered.items[1].st = "err"
  /\ Answered.items[1].cacheKey \notin CacheKeys(CACHE)

\* the step sends the response of the request of slot r
Responds(r) == sent' # <<>> /\ sent'[1].in = reqs[r].in

\* what a step does with responses: a request that arrives is answered at
\* once or starts awaiting upstream; a request awaiting upstream is answered
\* once, at the latest when none of its calls is in flight, and with 500
\* gateway_exception when a lookup of it raised a fault in this step; a
\* request already answered is not answered again
OneResponse ==
  /\ (arrived' # arrived) =>
       \/ reqs' = reqs /\ sent' # <<>>
       \/ \E r \in Slots : reqs[r].pc = "idle" /\ reqs'[r].pc = "awaiting" /\ sent' = <<>>
  /\ \A r \in Slots :
       (reqs[r].pc # "idle" /\ reqs'[r] # reqs[r]) =>
         /\ reqs[r].pc = "sent" => (sent' = <<>> /\ reqs'[r].pc \in {"sent", "idle"})
         /\ reqs[r].pc = "awaiting" =>
              /\ reqs'[r].pc = "awaiting" => sent' = <<>>
              /\ reqs'[r].pc \in {"sent", "idle"} => Responds(r)
              /\ (\E i \in 1..Len(ItemsAfter(r)) :
                    ItemsAfter(r)[i] # reqs[r].items[i] /\ ItemsAfter(r)[i].st = "thrown")
                   => (Responds(r) /\ sent'[1].status = 500 /\ sent'[1].body.error = "gateway_exception")

\* C16: every request is answered exactly once; a fault raised in a handler
\* is answered 500 gateway_exception; a request is open only while one of its
\* upstream calls is in flight; and if every upstream call comes back, every
\* request that awaits upstream is answered in the end
RequestTermination ==
  /\ [][OneResponse]_vars
  /\ [](\A r \in Slots : reqs[r].pc # "idle" => ~AllSettled(reqs[r].items))
  /\ \A r \in Slots : (reqs[r].pc = "awaiting") ~> (reqs[r].pc # "awaiting")

\* a request answered 500 gateway_exception after its upstream call rejected
FaultAnswered ==
  /\ sent # <<>>
  /\ Answered.items # <<>>
  /\ Answered.status = 500
  /\ Answered.items[1].st = "thrown"
  /\ Answered.body.error = "gateway_exception"

\* entry e of a batch response is the outcome of lookup it: the cached
\* payload, the payload of its last answer, or the status and body of its
\* last answer
OutcomeOf(e, it) ==
  IF it.outs = <<>>
  THEN DOMAIN e = {"placeId", "data", "cached"} /\ e.cached /\ e.data = it.liveData
  ELSE IF LastOut(it).kind = "ok"
  THEN DOMAIN e = {"placeId", "data", "cached"} /\ ~e.cached /\ e.data = LastOut(it).json
  ELSE /\ DOMAIN e = {"placeId", "error", "status", "body"}
       /\ e.error
       /\ e.status = LastOut(it).status
       /\ e.body = LastOut(it).body

\* C17: in a batchDetails response with status 200 the i-th entry of results
\* is the outcome of the lookup of the i-th identifier of placeIds, and its
\* placeId is that identifier in normalized form, whatever the order in which
\* the upstream calls came back
BatchResultOrder ==
  (sent # <<>> /\ ActionOf(Answered.in) = "batchDetails" /\ Answered.status = 200) =>
    LET list == PlaceIdsOf(Answered.in).list
    IN  /\ DOMAIN Answered.body = {"results"}
        /\ Len(Answered.body.results) = Len(list)
        /\ Len(Answered.items) = Len(list)
        /\ \A i \in 1..Len(list) :
             /\ Answered.items[i].pid = list[i]
             /\ Answered.body.results[i].placeId = RawIdOf[list[i]]
             /\ OutcomeOf(Answered.body.results[i], Answered.items[i])

\* a batch of two identifiers answered after the second lookup stored its
\* payload before the first did
SecondCameBackFirst ==
  /\ sent # <<>>
  /\ ActionOf(Answered.in) = "batchDetails"
  /\ Answered.status = 200
  /\ Len(Answered.items) = 2
  /\ Answered.nPut = 2
  /\ Answered.items[1].cacheKey # Answered.items[2].cacheKey
  /\ Answered.items[1].data # Answered.items[2].data
  /\ KeySeq(CACHE) = <<Answered.items[2].cacheKey, Answered.items[1].cacheKey>>

\* C18: all lookups of a batch read the cache before any of them writes it,
\* so two lookups of one key in a batch find the same; a lookup calls
\* upstream exactly when the cache held no unexpired entry under its key
\* when the request started, whatever calls are in flight for the same key,
\* in the same batch or in another request; and the entry of a lookup that
\* called upstream and got its payload says cached: false
NoDeduplication ==
  \A h \in Handled :
    (IsDetailsAction(h.in) /\ h.items # <<>>) =>
      /\ h.nGet = Len(h.items)
      /\ \A i, j \in 1..Len(h.items) :
           (h.items[i].cacheKey = h.items[j].cacheKey) => h.items[i].liveData = h.items[j].liveData
      /\ \A i \in 1..Len(h.items) :
           /\ (h.items[i].liveData = Undefined) => Len(h.items[i].calls) >= 1
           /\ (ActionOf(h.in) = "batchDetails" /\ Len(h.items[i].calls) >= 1) =>
                h.items[i].liveData = Undefined
           /\ (h.items[i].st = "ok") => ~Entry(h.items[i]).cached

\* lookup i of slot r succeeds in this step through the default-mask retry
SucceedsByRetry(r, i) ==
  /\ reqs[r].pc # "idle"
  /\ IsDetailsAction(reqs[r].in)
  /\ i \in 1..Len(reqs[r].items)
  /\ i \in 1..Len(ItemsAfter(r))
  /\ reqs[r].items[i].st = "fetch2"
  /\ ItemsAfter(r)[i].st = "ok"

\* C19: when a lookup succeeds through the default-mask retry, the payload
\* given to the caller is stored under the key of the caller's field list;
\* a lookup of the same identifier with the same field list, now and up to
\* the entry's expiry, is answered from the cache with that payload and no
\* upstream call; and where the default mask makes another key, a lookup
\* with the default mask that was a miss before is a miss still
FallbackCachedUnderCallerKey ==
  [][\A r \in Slots : \A i \in 1..(MaxBatch + 1) :
       SucceedsByRetry(r, i) =>
         LET it     == ItemsAfter(r)[i]
             fields == FieldsOf(reqs[r].in)
             json   == LastOut(it).json
             until  == now + DetailsTtlSec * MsPerSec
         IN  /\ it.cacheKey = cacheKeyOf(RawIdOf[it.pid], fields)
             /\ it.data = json
             /\ it.cacheKey \in CacheKeys(CACHE')
             /\ CACHE'[IndexOf(CACHE', it.cacheKey)] = [k |-> it.cacheKey, data |-> json, until |-> until]
             /\ \A t \in {now', until} :
                  LET again == Lookup(CACHE', t, it.pid, fields).item
                  IN  again.st = "hit" /\ again.calls = <<>> /\ again.data = json
             /\ (/\ cacheKeyOf(it.rawId, DEFAULT_FIELDS) # it.cacheKey
                 /\ Lookup(CACHE, now, it.pid, DEFAULT_FIELDS).item.st # "hit")
                  => Lookup(CACHE', now', it.pid, DEFAULT_FIELDS).item.st # "hit"]_vars

SearchActions == {"searchText", "nearbySearch", "autocomplete"}

\* this step answers a request at the head of the handler: a preflight, a
\* refusal by one of the checks, health, or a handler's validation error
AnsweredAtHead ==
  /\ sent' # <<>>
  /\ arrived' = arrived + 1
  /\ \/ sent'[1].in.method = "OPTIONS"
     \/ sent'[1].status \in {400, 401, 500}
     \/ ActionOf(sent'[1].in) = "health"

\* this step is the arrival of a search or autocomplete request, or the
\* return of its upstream call
SearchStep ==
  \E r \in Slots :
    /\ reqs'[r] # reqs[r]
    /\ \/ reqs'[r].pc # "idle" /\ ActionOf(reqs'[r].in) \in SearchActions
       \/ reqs[r].pc # "idle" /\ ActionOf(reqs[r].in) \in SearchActions

\* C20: an entry enters the cache or is overwritten only by the put after a
\* 2xx answer to a details or batchDetails lookup; a key leaves it only
\* when a details or batchDetails read finds it expired or such a put
\* evicts it; and the cache is the same after as before every step that
\* answers an OPTIONS, health, invalid_action, 401, missing_google_api_key
\* or validation-error request or that belongs to a searchText,
\* nearbySearch or autocomplete request
CacheFrame ==
  [][/\ \A j \in 1..Len(CACHE') : (CACHE'[j] \notin Range(CACHE)) => WrittenBySuccess(CACHE'[j])
     /\ \A k \in CacheKeys(CACHE) \ CacheKeys(CACHE') : ExpiredOnRead(k) \/ EvictedByPut(k)
     /\ (CACHE' # CACHE) =>
          \E r \in Slots : /\ reqs'[r] # reqs[r]
                           /\ \/ reqs[r].pc # "idle" /\ IsDetailsAction(reqs[r].in)
                              \/ reqs'[r].pc # "idle" /\ IsDetailsAction(reqs'[r].in)
     /\ (AnsweredAtHead \/ SearchStep) => CACHE' = CACHE]_vars

\* an autocomplete request is answered while the cache holds an expired
\* entry, which stays
SearchAnsweredOverExpiredEntry ==
  /\ sent # <<>>
  /\ ActionOf(Answered.in) = "autocomplete"
  /\ Answered.status = 200
  /\ \E j \in 1..Len(CACHE) : now > CACHE[j].until

-----------------------------------------------------------------------------
(* Properties of the cache                                                 *)

\* the last call of the cache-level specification
LastCall == ops.last[1]

\* C4: a get right after a put of the same key, with no time elapsed,
\* returns the value put; a get after the ttl of the latest put of its key
\* has elapsed returns null and the key is no longer in the cache; a get of
\* a key never stored returns null; and a get that returns a value returns
\* the value of the latest put of the key, whose ttl has not elapsed
CacheReadWrite ==
  (ops.last # <<>> /\ LastCall.op = "get") =>
    LET c == LastCall
        stored == c.latestBefore # <<>> /\ ~c.latestBefore[1].gone
    IN  /\ (c.prevOp = "put" /\ c.prevKey = c.k) =>
             (c.latestBefore # <<>> /\ c.ret = c.latestBefore[1].v)
        /\ (stored /\ c.t > c.latestBefore[1].until) =>
             (c.ret = Null /\ c.k \notin Range(c.keysAfter))
        /\ (c.latestBefore = <<>>) => c.ret = Null
        /\ (c.ret # Null) =>
             (stored /\ c.t <= c.latestBefore[1].until /\ c.ret = c.latestBefore[1].v)

\* a get found its entry expired and removed it
ExpiredEntryPurged ==
  /\ ops.last # <<>>
  /\ LastCall.op = "get"
  /\ LastCall.latestBefore # <<>>
  /\ ~LastCall.latestBefore[1].gone
  /\ LastCall.t > LastCall.latestBefore[1].until
  /\ LastCall.k \in Range(LastCall.keysBefore)
  /\ LastCall.k \notin Range(LastCall.keysAfter)

\* C5: the cache never holds more entries than the cap
CapacityBound == Len(CACHE) <= MaxEntries

\* a put of a request filled the cache beyond the cap and an entry left
EvictedAtCapacity ==
  /\ sent # <<>>
  /\ sent[1].nPut > 0
  /\ sent[1].removed # {}
  /\ Len(CACHE) = MaxEntries

\* the last call was a put of a new key into a full cache
PutOverCap ==
  /\ ops.last # <<>>
  /\ LastCall.op = "put"
  /\ LastCall.k \notin Range(LastCall.keysBefore)
  /\ Len(LastCall.keysBefore) = MaxEntries

RemovedByLastCall == Range(LastCall.keysBefore) \ Range(LastCall.keysAfter)

\* what C6 says of every call but the choice of the entry evicted: a put
\* over the cap removes exactly one entry and not the one just put, another
\* put removes none, and a get leaves the order of the entries as it was
EvictionFrame ==
  (ops.last # <<>>) =>
    /\ PutOverCap => (Cardinality(RemovedByLastCall) = 1 /\ LastCall.k \notin RemovedByLastCall)
    /\ (LastCall.op = "put" /\ ~PutOverCap) => RemovedByLastCall = {}
    /\ (LastCall.op = "get") =>
         LastCall.keysAfter = SelectSeq(LastCall.keysBefore, LAMBDA x : x \in Range(LastCall.keysAfter))

\* C6 as stated: the entry evicted is the one put longest ago, so that no
\* entry put more recently is evicted while an entry put earlier survives
EvictsLeastRecentlyPut ==
  /\ EvictionFrame
  /\ PutOverCap => RemovedByLastCall = {Head(LastCall.byPutBefore)}

\* C6 as amended: the entry evicted is the one whose key entered the cache
\* first; a put of a key already in the cache keeps the key's place
EvictsFirstInserted ==
  /\ EvictionFrame
  /\ KeySeq(CACHE) = ops.byInsert
  /\ PutOverCap => RemovedByLastCall = {Head(LastCall.byInsertBefore)}

\* a put evicted the first-inserted key although it had been put again
\* after another key that survives
EvictedAfterOverwrite ==
  /\ PutOverCap
  /\ Head(LastCall.byInsertBefore) # Head(LastCall.byPutBefore)
  /\ RemovedByLastCall = {Head(LastCall.byInsertBefore)}

====
